---- MODULE Spec2Model ----
(***************************************************************************)
(* Model of backend/ai_generator.py: AIGenerator.generate_response, the    *)
(* bounded tool-calling loop against the model service, together with      *)
(* _make_api_call and _execute_tools_and_update_messages.                  *)
(*                                                                         *)
(* The model service (client.messages.create) and the tool manager         *)
(* (tool_manager.execute_tool) are external: every response the service    *)
(* can return and every outcome an invocation can have is drawn            *)
(* nondeterministically from the bounded sets below.                       *)
(*                                                                         *)
(* Specifications: Spec (one query), SpecQueries (queries one after        *)
(* another on the same generator and tool manager), SpecConcurrent (two    *)
(* queries at the same time), SpecTools (the tools and the tool manager    *)
(* called directly, as backend/tests call them), SpecSystem (one query of  *)
(* a session that may hold earlier exchanges), SpecFair (one query, every  *)
(* call answered in the end), SpecRegistry (tools being registered) and    *)
(* SpecAbort (one query that can be interrupted during a tool call).       *)
(***************************************************************************)
EXTENDS Integers, Sequences, FiniteSets, TLC

VARIABLES
    pc,            \* position inside generate_response
    query,         \* argument query
    max_rounds,    \* argument max_rounds
    tools,         \* argument tools (None, [] or a list of definitions)
    tool_manager,  \* argument tool_manager: TRUE if one was supplied
    round_num,     \* number of loop iterations started so far
    messages,      \* local list `messages`
    response,      \* the response being processed by the tool round
    block_idx,     \* position of the for loop over response.content
    tool_results,  \* local list `tool_results` of the tool round
    api_calls,     \* history: every client.messages.create call, in order
    invocations,   \* history: every tool_manager.execute_tool call, in order
    result,        \* how generate_response ended
    in_flight,     \* the calls issued by generate_response that have not come back
    query_count,   \* number of generate_response calls made on this generator
    last_sources,  \* the tool manager's record of citations (last_sources)
    sources,       \* the caller's local: what it read from last_sources
    threads,       \* number of threads that serve queries on this generator
    parked,        \* the locals of the call running in the thread not scheduled
    tool_call,     \* history: the last call made directly on the tool manager
    conversation_history, \* argument conversation_history, as the session holds it
    system_content, \* local system_content, built at line 83
    manager_tools, \* the tool manager's tools: pairs <<name, tool object>>
    registrations, \* history: every register_tool call, in order
    stored_params  \* the generator's attribute base_params, as it stands

vars == <<pc, query, max_rounds, tools, tool_manager, round_num, messages, response,
          block_idx, tool_results, api_calls, invocations, result, in_flight,
          query_count, last_sources, sources, threads, parked, tool_call,
          conversation_history, system_content, manager_tools, registrations,
          stored_params>>

----------------------------------------------------------------------------
(* Bounds of the model *)

\* largest max_rounds a caller passes
MaxRoundsBound == 2
\* largest number of content blocks in one model response
MaxBlocks == 2

\* with two queries at the same time: the max_rounds each is given, and the
\* largest number of content blocks in one model response
ConcurrentRounds == 1
ConcurrentBlocks == 1

\* max_rounds arguments: range(max_rounds) is empty for 0 and for negatives
RoundArgs == (-1) .. MaxRoundsBound
RoundArgsFor(t) == IF t = 1 THEN RoundArgs ELSE {ConcurrentRounds}

\* capability names the model may request: a tool that answers or fails, as
\* in tests/test_real_world_scenario.py a tool whose execute always raises,
\* and a name under which no tool is registered
ToolNames == {"search_course_content", "broken_tool", "unknown_tool"}
\* the input mapping of a tool-call block (opaque to the generator)
ToolInputs == {"query=What is MCP?"}

----------------------------------------------------------------------------
(* Values *)

\* base_params set by __init__
Temperature == 0
MaxTokens == 800
ModelName == "claude-3-sonnet-20240229"

base_params == [model |-> ModelName, temperature |-> Temperature,
                max_tokens |-> MaxTokens]

\* the dictionary self.base_params as __init__ leaves it: the three keys of
\* base_params, no key tools and no key tool_choice
InitialParams ==
    [model |-> base_params.model, temperature |-> base_params.temperature,
     max_tokens |-> base_params.max_tokens,
     has_tools |-> FALSE, tools |-> <<>>, tool_choice |-> ""]

\* the tools argument: None, the empty list, or the registry's definitions
ToolDefs == <<"search_course_content", "get_course_outline">>
ToolsNone == [none |-> TRUE, defs |-> <<>>]
ToolsArgs == { ToolsNone, [none |-> FALSE, defs |-> <<>>],
               [none |-> FALSE, defs |-> ToolDefs] }
ToolsArgsFor(t) ==
    IF t = 1 THEN ToolsArgs ELSE { [none |-> FALSE, defs |-> ToolDefs] }

\* Truthy testing `is not None` instead
ToolsNotNone(t) == ~t.none

\* Python truthiness of the tools argument (`if tools:`)
Truthy(t) == ~t.none /\ Len(t.defs) > 0

\* content blocks of a response. The service issues a fresh id for every
\* tool call (call number * 10 + position), and the text of call k is
\* "answer k", so the texts of different responses differ
TextBlock(t) == [type |-> "text", text |-> t, id |-> 0, name |-> "", input |-> ""]
ToolUseBlock(i, n, inp) ==
    [type |-> "tool_use", text |-> "", id |-> i, name |-> n, input |-> inp]

\* the shapes a content block can have; the text of a text block and the id
\* of a tool-call block are filled in by MkResponse
BlockChoices == [type : {"text"}, name : {""}, input : {""}]
                \cup [type : {"tool_use"}, name : ToolNames, input : ToolInputs]

ContentChoices == UNION { [1..n -> BlockChoices] : n \in 0..MaxBlocks }
ContentChoicesFor(t) ==
    IF t = 1 THEN ContentChoices
    ELSE UNION { [1..n -> BlockChoices] : n \in 0..ConcurrentBlocks }

StopReasons == {"end_turn", "tool_use"}

AnswerText(k) == "answer " \o ToString(k)

\* the response the service returns to call number k
MkResponse(k, stop, shape) ==
    [stop_reason |-> stop,
     content |-> [i \in 1..Len(shape) |->
                    IF shape[i].type = "text"
                    THEN TextBlock(AnswerText(k))
                    ELSE ToolUseBlock(10 * k + i, shape[i].name, shape[i].input)]]

NoResponse == [stop_reason |-> "", content |-> <<>>]
NoResult == [kind |-> "none", value |-> ""]
Returned(s) == [kind |-> "returned", value |-> s]
Raised(e) == [kind |-> "raised", value |-> e]

PlaceholderText == "Tool execution not available"

\* the conversation_history argument: None, the empty string, or the
\* formatted earlier exchanges of the session
HistoryNone == [none |-> TRUE, text |-> ""]
HistoryText(s) == [none |-> FALSE, text |-> s]
HistoryArgs == { HistoryNone, HistoryText(""), HistoryText("User: Hello") }

\* the number of tool rounds SYSTEM_PROMPT names (line 12)
DeclaredRounds == 2

\* the system prompt as it would read if it declared n tool rounds
PromptDeclaring(n) ==
    "You are an AI assistant. **Maximum " \o ToString(n) \o " tool rounds**"

\* the class attribute SYSTEM_PROMPT: one static text
SYSTEM_PROMPT == PromptDeclaring(DeclaredRounds)

\* the heading put between the prompt and the history
HistoryHeading == "\n\nPrevious conversation:\n"
\* (the prefix without the word Tool)
FailurePrefixShort == "execution failed: "
\* line 182: f"Tool execution failed: {str(e)}"
FailurePrefix == "Tool execution failed: "

----------------------------------------------------------------------------
(* Pure parts of the code *)

\* WantsTools deciding by the content blocks instead of the stop reason
WantsToolsByContent(resp) ==
    \E i \in 1..Len(resp.content) : resp.content[i].type = "tool_use"

\* `response.stop_reason != "tool_use"` is the direct answer
WantsTools(resp) == resp.stop_reason = "tool_use"

\* response.content[0].text: IndexError on an empty list, AttributeError
\* when the first block is a tool-call block (it has no attribute text)
FirstText(resp) ==
    IF Len(resp.content) = 0 THEN Raised("IndexError")
    ELSE IF resp.content[1].type # "text" THEN Raised("AttributeError")
    ELSE Returned(resp.content[1].text)

\* response.content[0].text if response.content else "Tool execution not available"
NoManagerAnswer(resp) ==
    IF Len(resp.content) > 0 THEN FirstText(resp) ELSE Returned(PlaceholderText)

\* HistoryGiven testing `is not None` instead
HistoryNotNone(h) == ~h.none

\* Python truthiness of conversation_history (`if conversation_history:`)
HistoryGiven(h) == ~h.none /\ h.text # ""

\* _build_system_content(conversation_history)
BuildSystemContent(h) ==
    IF HistoryGiven(h) THEN SYSTEM_PROMPT \o HistoryHeading \o h.text
    ELSE SYSTEM_PROMPT

\* _make_api_call: the parameters handed to client.messages.create:
\* {**self.base_params, "messages": ..., "system": ...}, then tools and
\* tool_choice when `if tools:` holds
ApiParams(msgs, tls) ==
    [model |-> stored_params.model,
     system |-> system_content,
     temperature |-> stored_params.temperature,
     max_tokens |-> stored_params.max_tokens,
     messages |-> msgs,
     has_tools |-> Truthy(tls) \/ stored_params.has_tools,
     tools |-> IF Truthy(tls) THEN tls.defs ELSE stored_params.tools,
     tool_choice |-> IF Truthy(tls) THEN "auto" ELSE stored_params.tool_choice]

\* StoredAfterCall when api_params is self.base_params itself, not a copy:
\* the keys set for the call stay in the stored dictionary
StoredSharedWithCall(stored, params) ==
    [model |-> params.model, temperature |-> params.temperature,
     max_tokens |-> params.max_tokens, has_tools |-> params.has_tools,
     tools |-> params.tools, tool_choice |-> params.tool_choice]

\* lines 135-139: api_params is a new dictionary built from
\* self.base_params; the stored one is left as it is
StoredAfterCall(stored, params) == stored

\* one entry of the call history
CallRecord(params, outcome, resp) ==
    [params |-> params, outcome |-> outcome, response |-> resp]

UserTurn(c) == [role |-> "user", kind |-> "text", text |-> c, blocks |-> <<>>]
AssistantTurn(content) ==
    [role |-> "assistant", kind |-> "blocks", text |-> "", blocks |-> content]
ResultsTurn(rs) == [role |-> "user", kind |-> "tool_results", text |-> "", blocks |-> rs]

\* CaughtInRound without the except clause
CaughtNothing(outcome) == FALSE

\* `except Exception`: every exception a tool raises is caught in the round
CaughtInRound(outcome) == outcome.kind = "raise"

\* OutcomeResult putting a label in front of what the tool returned
OutcomeResultLabelled(block, outcome) ==
    [type |-> "tool_result", tool_use_id |-> block.id,
     content |-> IF outcome.kind = "return"
                 THEN "Tool result: " \o outcome.value
                 ELSE FailurePrefix \o outcome.value]

\* OutcomeResult reporting every outcome as a failure
OutcomeResultAllFailed(block, outcome) ==
    [type |-> "tool_result", tool_use_id |-> block.id,
     content |-> FailurePrefix \o outcome.value]

\* the tool_result built for one tool-call block (try / except Exception)
OutcomeResult(block, outcome) ==
    IF outcome.kind = "return"
    THEN [type |-> "tool_result", tool_use_id |-> block.id, content |-> outcome.value]
    ELSE [type |-> "tool_result", tool_use_id |-> block.id,
          content |-> FailurePrefix \o outcome.value]

\* CollectResult putting the newest result first
CollectResultFront(rs, r) == <<r>> \o rs

\* tool_results.append(...)
CollectResult(rs, r) == Append(rs, r)

\* WithResults overwriting the last turn with the results
WithResultsOverLast(msgs, rs) ==
    IF Len(rs) > 0 THEN [msgs EXCEPT ![Len(msgs)] = ResultsTurn(rs)] ELSE msgs

\* WithResults appending one user turn per result
WithResultsTurnEach(msgs, rs) ==
    msgs \o [i \in 1..Len(rs) |-> ResultsTurn(<<rs[i]>>)]

\* `if tool_results: messages.append({"role": "user", "content": tool_results})`
WithResults(msgs, rs) ==
    IF Len(rs) > 0 THEN Append(msgs, ResultsTurn(rs)) ELSE msgs

\* CallArguments passing the name without the input
CallArgumentsNoInput(block) == [name |-> block.name, input |-> ""]

\* lines 168-171: execute_tool(content_block.name, **content_block.input)
CallArguments(block) == [name |-> block.name, input |-> block.input]

\* what the tool manager answers when no tool has the name
NotFoundOutput(name) == "Tool '" \o name \o "' not found"

\* tool_manager.execute_tool(name, **input): the outcomes it can have
ExecuteTool(name, input) ==
    IF name = "broken_tool"
    THEN { [kind |-> "raise", value |-> "Simulated tool failure"] }
    ELSE IF name = "unknown_tool"
    THEN { [kind |-> "return", value |-> NotFoundOutput(name)] }
    ELSE { [kind |-> "return", value |-> "search results"],
           [kind |-> "raise", value |-> "Database crashed"] }

\* FinalTools when the final call passes the caller's tools on
FinalToolsKept == tools

\* the tools of the call after the loop: `tools=None`
FinalTools == ToolsNone

\* AfterApiError when the failed call is tried again
AfterApiErrorRetry == "loop"

\* no try/except surrounds client.messages.create: its exception ends the call
AfterApiError == "raised"

\* FirstStep with a loop whose body runs at least once
FirstStepAtLeastOnce(mr) == "loop"

\* line 87: range(max_rounds) is empty for max_rounds <= 0, the loop body is
\* not entered and the call after the loop is the first one
FirstStep(mr) == IF 0 < mr THEN "loop" ELSE "final"

\* AfterRound with a loop that runs one iteration too many
AfterRoundExtra(n) == IF n <= max_rounds THEN "loop" ELSE "final"

\* AfterRound with a loop that stops one iteration early
AfterRoundEarly(n) == IF n < max_rounds - 1 THEN "loop" ELSE "final"

\* AfterRound when generate_response returns right after a tool round
AfterRoundReturn(n) == "returned"

\* where the for loop goes after an iteration: `for round_num in range(max_rounds)`
AfterRound(n) == IF n < max_rounds THEN "loop" ELSE "final"

\* one citation: which query's invocation recorded it, and for which tool call
Citation(q, id) == [query |-> q, id |-> id]

\* the citations a tool invocation records in the tool manager: a content
\* search that returns its formatted results records one per item found (one
\* item here); a failing invocation records none
SourcesOf(block, outcome, q) ==
    IF block.name = "search_course_content" /\ outcome.kind = "return"
    THEN <<Citation(q, block.id)>>
    ELSE <<>>

\* SourcesAcrossRounds when the record is cleared between two rounds
SourcesClearedEachRound(recorded) == <<>>

\* lines 100-102 and 186-189: between two rounds generate_response calls
\* nothing on the tool manager, the citations on record stay as they are
SourcesAcrossRounds(recorded) == recorded

\* (the method the round would call if it registered the requested name)
CalledMethodRegister == "register_tool"

\* line 168: the one method the round calls on the tool manager
CalledMethod == "execute_tool"

\* the tool manager's tools after the round has called the method for a
\* tool-call block: execute_tool looks the name up and leaves the tools as
\* they are, register_tool stores a tool under the name
ManagerToolsAfter(method, registered, block) ==
    IF method = "register_tool"
    THEN { t \in registered : t[1] # block.name } \cup { <<block.name, block.id>> }
    ELSE registered

\* the query argument of the n-th generate_response call on this generator
QueryText(n) == "query " \o ToString(n)

\* no call has been made directly on the tool manager
NoToolCall == [op |-> "none"]

\* the tool manager of the tool_manager fixture: the search tool, then the
\* outline tool
FixtureRegistrations ==
    << <<"search_course_content", 1>>, <<"get_course_outline", 1>> >>
FixtureTools == { FixtureRegistrations[i] : i \in 1..Len(FixtureRegistrations) }

\* what the caller holds before it has read the citations
NoSources == [read |-> FALSE, citations |-> <<>>]

\* the locals of a generate_response call that has not started
IdleLocals ==
    [pc |-> "idle", query |-> "", max_rounds |-> 2, tools |-> ToolsNone,
     tool_manager |-> FALSE, round_num |-> 0, messages |-> <<>>,
     response |-> NoResponse, block_idx |-> 0, tool_results |-> <<>>,
     api_calls |-> <<>>, invocations |-> <<>>, result |-> NoResult,
     in_flight |-> {}, sources |-> NoSources, system_content |-> ""]

\* a call issued by generate_response and not yet returned: the n-th
\* client.messages.create call, or the execute_tool call for the block with id n
ModelOp(n) == [kind |-> "model", n |-> n]
ToolOp(n) == [kind |-> "tool", n |-> n]

\* (calls that would be issued without waiting for the one before)
NeverBlocked == FALSE
\* lines 145 and 168: both calls are synchronous, generate_response does
\* nothing else until the call it issued has returned or raised
Blocked == in_flight # {}

----------------------------------------------------------------------------
(* State machine *)

Init ==
    /\ pc = "idle"
    /\ query = ""
    /\ max_rounds = 2
    /\ tools = ToolsNone
    /\ tool_manager = FALSE
    /\ round_num = 0
    /\ messages = <<>>
    /\ response = NoResponse
    /\ block_idx = 0
    /\ tool_results = <<>>
    /\ api_calls = <<>>
    /\ invocations = <<>>
    /\ result = NoResult
    /\ in_flight = {}
    /\ query_count = 0
    /\ last_sources = <<>>
    /\ sources = NoSources
    /\ threads = 1
    /\ parked = IdleLocals
    /\ tool_call = NoToolCall
    /\ conversation_history = HistoryNone
    /\ system_content = ""
    /\ manager_tools = FixtureTools
    /\ registrations = FixtureRegistrations
    /\ stored_params = InitialParams

\* generate_response is called: lines 82-87
GenerateResponse ==
    /\ pc = "idle"
    /\ \E mr \in RoundArgsFor(threads), tl \in ToolsArgsFor(threads), tm \in BOOLEAN :
        /\ max_rounds' = mr
        /\ tools' = tl
        /\ tool_manager' = tm
        /\ query' = QueryText(query_count + 1)
        /\ system_content' = BuildSystemContent(conversation_history)
        /\ messages' = <<UserTurn(QueryText(query_count + 1))>>
        /\ round_num' = 0
        /\ pc' = FirstStep(mr)
    /\ query_count' = query_count + 1
    /\ UNCHANGED <<response, block_idx, tool_results, api_calls, invocations, result,
                   in_flight, last_sources, sources, threads, stored_params, conversation_history, manager_tools, registrations, parked, tool_call>>

\* lines 88, 105 and 145: client.messages.create is called; the caller waits
MakeApiCall ==
    /\ pc \in {"loop", "final"}
    /\ ~Blocked
    /\ in_flight' = in_flight \cup {ModelOp(Len(api_calls) + 1)}
    /\ UNCHANGED <<pc, query, system_content, max_rounds, tools, tool_manager, round_num, messages, response,
                   block_idx, tool_results, api_calls, invocations, result>>
    /\ UNCHANGED <<query_count, last_sources, sources, threads, stored_params, conversation_history, manager_tools, registrations, parked, tool_call>>

\* line 88, the service fails: the exception leaves generate_response
LoopCallRaises ==
    /\ pc = "loop"
    /\ ModelOp(Len(api_calls) + 1) \in in_flight
    /\ in_flight' = in_flight \ {ModelOp(Len(api_calls) + 1)}
    /\ stored_params' = StoredAfterCall(stored_params, ApiParams(messages, tools))
    /\ api_calls' = Append(api_calls,
                      CallRecord(ApiParams(messages, tools), "raise", NoResponse))
    /\ result' = Raised("APIError")
    /\ pc' = AfterApiError
    /\ UNCHANGED <<query, system_content, max_rounds, tools, tool_manager, round_num, messages, response,
                   block_idx, tool_results, invocations>>
    /\ UNCHANGED <<query_count, last_sources, sources, threads, conversation_history, manager_tools, registrations, parked, tool_call>>

\* lines 88-93: the response is a direct answer
DirectAnswer ==
    /\ pc = "loop"
    /\ ModelOp(Len(api_calls) + 1) \in in_flight
    /\ in_flight' = in_flight \ {ModelOp(Len(api_calls) + 1)}
    /\ stored_params' = StoredAfterCall(stored_params, ApiParams(messages, tools))
    /\ \E shape \in ContentChoicesFor(threads), stop \in StopReasons :
        LET resp == MkResponse(Len(api_calls) + 1, stop, shape) IN
        /\ ~WantsTools(resp)
        /\ api_calls' = Append(api_calls,
                          CallRecord(ApiParams(messages, tools), "response", resp))
        /\ result' = FirstText(resp)
        /\ pc' = IF FirstText(resp).kind = "returned" THEN "returned" ELSE "raised"
    /\ UNCHANGED <<query, system_content, max_rounds, tools, tool_manager, round_num, messages, response,
                   block_idx, tool_results, invocations>>
    /\ UNCHANGED <<query_count, last_sources, sources, threads, conversation_history, manager_tools, registrations, parked, tool_call>>

\* lines 88-98: tools requested but no tool manager was supplied
NoToolManager ==
    /\ pc = "loop"
    /\ ModelOp(Len(api_calls) + 1) \in in_flight
    /\ in_flight' = in_flight \ {ModelOp(Len(api_calls) + 1)}
    /\ stored_params' = StoredAfterCall(stored_params, ApiParams(messages, tools))
    /\ ~tool_manager
    /\ \E shape \in ContentChoicesFor(threads), stop \in StopReasons :
        LET resp == MkResponse(Len(api_calls) + 1, stop, shape) IN
        /\ WantsTools(resp)
        /\ api_calls' = Append(api_calls,
                          CallRecord(ApiParams(messages, tools), "response", resp))
        /\ result' = NoManagerAnswer(resp)
        /\ pc' = IF NoManagerAnswer(resp).kind = "returned" THEN "returned" ELSE "raised"
    /\ UNCHANGED <<query, system_content, max_rounds, tools, tool_manager, round_num, messages, response,
                   block_idx, tool_results, invocations>>
    /\ UNCHANGED <<query_count, last_sources, sources, threads, conversation_history, manager_tools, registrations, parked, tool_call>>

\* lines 88-102 and 161-164: tools requested, the tool round starts
BeginToolRound ==
    /\ pc = "loop"
    /\ ModelOp(Len(api_calls) + 1) \in in_flight
    /\ in_flight' = in_flight \ {ModelOp(Len(api_calls) + 1)}
    /\ stored_params' = StoredAfterCall(stored_params, ApiParams(messages, tools))
    /\ tool_manager
    /\ \E shape \in ContentChoicesFor(threads), stop \in StopReasons :
        LET resp == MkResponse(Len(api_calls) + 1, stop, shape) IN
        /\ WantsTools(resp)
        /\ api_calls' = Append(api_calls,
                          CallRecord(ApiParams(messages, tools), "response", resp))
        /\ response' = resp
        /\ messages' = Append(messages, AssistantTurn(resp.content))
    /\ tool_results' = <<>>
    /\ block_idx' = 1
    /\ pc' = "exec"
    /\ UNCHANGED <<query, system_content, max_rounds, tools, tool_manager, round_num, invocations, result>>
    /\ UNCHANGED <<query_count, last_sources, sources, threads, conversation_history, manager_tools, registrations, parked, tool_call>>

\* lines 165-166: a content block that is not a tool call is passed over
SkipBlock ==
    /\ pc = "exec"
    /\ block_idx <= Len(response.content)
    /\ response.content[block_idx].type # "tool_use"
    /\ ~Blocked
    /\ block_idx' = block_idx + 1
    /\ UNCHANGED <<pc, query, system_content, max_rounds, tools, tool_manager, round_num, messages, response,
                   tool_results, api_calls, invocations, result, in_flight>>
    /\ UNCHANGED <<query_count, last_sources, sources, threads, stored_params, conversation_history, manager_tools, registrations, parked, tool_call>>

\* lines 166-171: tool_manager.execute_tool is called for the block at the loop
\* position; the loop moves on only when the call has come back
CallTool ==
    /\ pc = "exec"
    /\ block_idx <= Len(response.content)
    /\ response.content[block_idx].type = "tool_use"
    /\ ~Blocked
    /\ in_flight' = in_flight \cup {ToolOp(response.content[block_idx].id)}
    /\ block_idx' = block_idx + 1
    /\ UNCHANGED <<pc, query, system_content, max_rounds, tools, tool_manager, round_num, messages, response,
                   tool_results, api_calls, invocations, result>>
    /\ UNCHANGED <<query_count, last_sources, sources, threads, stored_params, conversation_history, manager_tools, registrations, parked, tool_call>>

\* lines 168-183: the tool call comes back and its result is collected
InvokeTool ==
    /\ pc = "exec"
    /\ \E op \in in_flight, i \in 1..Len(response.content) :
        /\ op = ToolOp(response.content[i].id)
        /\ response.content[i].type = "tool_use"
        /\ LET block == response.content[i] IN
          \E outcome \in ExecuteTool(CallArguments(block).name,
                                     CallArguments(block).input) :
            /\ in_flight' = in_flight \ {op}
            /\ last_sources' = last_sources \o SourcesOf(block, outcome, query)
            /\ manager_tools' = ManagerToolsAfter(CalledMethod, manager_tools, block)
            /\ invocations' = Append(invocations,
                                 [name |-> CallArguments(block).name,
                                  input |-> CallArguments(block).input,
                                  id |-> block.id, outcome |-> outcome,
                                  after_call |-> Len(api_calls)])
            /\ IF outcome.kind = "return" \/ CaughtInRound(outcome)
               THEN /\ tool_results' = CollectResult(tool_results,
                                                     OutcomeResult(block, outcome))
                    /\ UNCHANGED <<pc, result>>
               ELSE /\ result' = Raised(outcome.value)
                    /\ pc' = "raised"
                    /\ UNCHANGED tool_results
    /\ UNCHANGED <<query, system_content, max_rounds, tools, tool_manager, round_num, messages, response,
                   block_idx, api_calls>>
    /\ UNCHANGED <<query_count, sources, threads, stored_params, conversation_history, registrations, parked, tool_call>>

\* lines 186-189 and the loop header: results appended, next iteration
EndToolRound ==
    /\ pc = "exec"
    /\ block_idx > Len(response.content)
    /\ ~Blocked
    /\ messages' = WithResults(messages, tool_results)
    /\ round_num' = round_num + 1
    /\ pc' = AfterRound(round_num + 1)
    /\ response' = NoResponse
    /\ block_idx' = 0
    /\ tool_results' = <<>>
    /\ last_sources' = SourcesAcrossRounds(last_sources)
    /\ UNCHANGED <<query, system_content, max_rounds, tools, tool_manager, api_calls, invocations, result,
                   in_flight>>
    /\ UNCHANGED <<query_count, sources, threads, stored_params, conversation_history, manager_tools, registrations, parked, tool_call>>

\* line 105, the service fails on the final call
FinalCallRaises ==
    /\ pc = "final"
    /\ ModelOp(Len(api_calls) + 1) \in in_flight
    /\ in_flight' = in_flight \ {ModelOp(Len(api_calls) + 1)}
    /\ stored_params' = StoredAfterCall(stored_params, ApiParams(messages, FinalTools))
    /\ api_calls' = Append(api_calls,
                      CallRecord(ApiParams(messages, FinalTools), "raise", NoResponse))
    /\ result' = Raised("APIError")
    /\ pc' = AfterApiError
    /\ UNCHANGED <<query, system_content, max_rounds, tools, tool_manager, round_num, messages, response,
                   block_idx, tool_results, invocations>>
    /\ UNCHANGED <<query_count, last_sources, sources, threads, conversation_history, manager_tools, registrations, parked, tool_call>>

\* lines 105-106: the final call, made without tools
FinalCall ==
    /\ pc = "final"
    /\ ModelOp(Len(api_calls) + 1) \in in_flight
    /\ in_flight' = in_flight \ {ModelOp(Len(api_calls) + 1)}
    /\ stored_params' = StoredAfterCall(stored_params, ApiParams(messages, FinalTools))
    /\ \E shape \in ContentChoicesFor(threads), stop \in StopReasons :
        LET resp == MkResponse(Len(api_calls) + 1, stop, shape) IN
        /\ api_calls' = Append(api_calls,
                          CallRecord(ApiParams(messages, FinalTools), "response", resp))
        /\ result' = FirstText(resp)
        /\ pc' = IF FirstText(resp).kind = "returned" THEN "returned" ELSE "raised"
    /\ UNCHANGED <<query, system_content, max_rounds, tools, tool_manager, round_num, messages, response,
                   block_idx, tool_results, invocations>>
    /\ UNCHANGED <<query_count, last_sources, sources, threads, conversation_history, manager_tools, registrations, parked, tool_call>>

Next ==
    \/ GenerateResponse
    \/ MakeApiCall
    \/ LoopCallRaises
    \/ DirectAnswer
    \/ NoToolManager
    \/ BeginToolRound
    \/ SkipBlock
    \/ CallTool
    \/ InvokeTool
    \/ EndToolRound
    \/ FinalCallRaises
    \/ FinalCall

Spec == Init /\ [][Next]_vars

----------------------------------------------------------------------------
(* Several queries, one after another, on the same generator and registry *)

\* largest number of queries put to one generator
MaxQueries == 2

\* the caller reads the citations once generate_response has returned
CollectCitations ==
    /\ pc = "returned"
    /\ ~sources.read
    /\ sources' = [read |-> TRUE, citations |-> last_sources]
    /\ UNCHANGED <<pc, query, system_content, max_rounds, tools, tool_manager, round_num, messages,
                   response, block_idx, tool_results, api_calls, invocations, result,
                   in_flight, query_count, last_sources, threads, stored_params, conversation_history, manager_tools, registrations, parked, tool_call>>

\* generate_response is over (the caller has read the citations, or the
\* error has reached it): its locals are gone, the generator and the tool
\* manager stay and serve the next query
NextQuery ==
    /\ \/ pc = "returned" /\ sources.read
       \/ pc = "raised"
    /\ query_count < MaxQueries
    /\ pc' = "idle"
    /\ query' = ""
    /\ max_rounds' = 2
    /\ tools' = ToolsNone
    /\ tool_manager' = FALSE
    /\ round_num' = 0
    /\ messages' = <<>>
    /\ response' = NoResponse
    /\ block_idx' = 0
    /\ tool_results' = <<>>
    /\ api_calls' = <<>>
    /\ invocations' = <<>>
    /\ result' = NoResult
    /\ in_flight' = {}
    /\ sources' = NoSources
    /\ system_content' = ""
    /\ UNCHANGED <<query_count, last_sources, threads, stored_params, conversation_history, manager_tools, registrations, parked, tool_call>>

NextQueries ==
    \/ Next
    \/ CollectCitations
    \/ NextQuery

SpecQueries == Init /\ [][NextQueries]_vars

----------------------------------------------------------------------------
(* Two queries at the same time on the same generator and registry *)

\* two threads serve queries
InitConcurrent ==
    /\ pc = "idle"
    /\ query = ""
    /\ max_rounds = 2
    /\ tools = ToolsNone
    /\ tool_manager = FALSE
    /\ round_num = 0
    /\ messages = <<>>
    /\ response = NoResponse
    /\ block_idx = 0
    /\ tool_results = <<>>
    /\ api_calls = <<>>
    /\ invocations = <<>>
    /\ result = NoResult
    /\ in_flight = {}
    /\ query_count = 0
    /\ last_sources = <<>>
    /\ sources = NoSources
    /\ threads = 2
    /\ parked = IdleLocals
    /\ tool_call = NoToolCall
    /\ conversation_history = HistoryNone
    /\ system_content = ""
    /\ manager_tools = FixtureTools
    /\ registrations = FixtureRegistrations
    /\ stored_params = InitialParams

\* the locals of the call that is running
Locals ==
    [pc |-> pc, query |-> query, max_rounds |-> max_rounds, tools |-> tools,
     tool_manager |-> tool_manager, round_num |-> round_num, messages |-> messages,
     response |-> response, block_idx |-> block_idx, tool_results |-> tool_results,
     api_calls |-> api_calls, invocations |-> invocations, result |-> result,
     in_flight |-> in_flight, sources |-> sources,
     system_content |-> system_content]

\* the running call waits for the model service or for a tool, or it has
\* not started or is over
AtSuspensionPoint == in_flight # {} \/ pc \in {"idle", "returned", "raised"}

\* the other thread is scheduled: the two calls exchange places. Each call
\* keeps its own locals; the generator and the tool manager are the same
\* objects for both.
Switch ==
    /\ threads = 2
    /\ AtSuspensionPoint
    /\ parked' = Locals
    /\ pc' = parked.pc
    /\ query' = parked.query
    /\ max_rounds' = parked.max_rounds
    /\ tools' = parked.tools
    /\ tool_manager' = parked.tool_manager
    /\ round_num' = parked.round_num
    /\ messages' = parked.messages
    /\ response' = parked.response
    /\ block_idx' = parked.block_idx
    /\ tool_results' = parked.tool_results
    /\ api_calls' = parked.api_calls
    /\ invocations' = parked.invocations
    /\ result' = parked.result
    /\ in_flight' = parked.in_flight
    /\ sources' = parked.sources
    /\ system_content' = parked.system_content
    /\ UNCHANGED <<query_count, last_sources, threads, stored_params, conversation_history, manager_tools, registrations, tool_call>>

NextConcurrent ==
    \/ Next
    \/ CollectCitations
    \/ Switch

SpecConcurrent == InitConcurrent /\ [][NextConcurrent]_vars

----------------------------------------------------------------------------
(* One query of a session that may hold earlier exchanges *)

\* the caller passes the history of its session: none for a new session,
\* the formatted exchanges (possibly an empty text) otherwise
InitSystem ==
    /\ pc = "idle"
    /\ query = ""
    /\ max_rounds = 2
    /\ tools = ToolsNone
    /\ tool_manager = FALSE
    /\ round_num = 0
    /\ messages = <<>>
    /\ response = NoResponse
    /\ block_idx = 0
    /\ tool_results = <<>>
    /\ api_calls = <<>>
    /\ invocations = <<>>
    /\ result = NoResult
    /\ in_flight = {}
    /\ query_count = 0
    /\ last_sources = <<>>
    /\ sources = NoSources
    /\ threads = 1
    /\ parked = IdleLocals
    /\ tool_call = NoToolCall
    /\ conversation_history \in HistoryArgs
    /\ system_content = ""
    /\ manager_tools = FixtureTools
    /\ registrations = FixtureRegistrations
    /\ stored_params = InitialParams

SpecSystem == InitSystem /\ [][Next]_vars

----------------------------------------------------------------------------
(* One query, every call answered in the end *)

\* client.messages.create and tool_manager.execute_tool return or raise, and
\* the thread running generate_response is scheduled: a step that can be
\* taken is taken in the end
SpecFair == Init /\ [][Next]_vars /\ WF_vars(Next)

----------------------------------------------------------------------------
(* The tools and the tool manager, called directly as the tests call them *)

\* largest number of citations last_sources is let to hold
MaxSources == 3

\* the keyword arguments of a tool call: the set of keys of the mapping
ParamKeys == {"query", "course_name", "lesson_number", "course_title", "extra_param"}
ParamMappings ==
    { {"query"}, {"query", "course_name", "lesson_number"},
      {"course_name", "lesson_number"}, {"query", "course_name", "extra_param"},
      {"extra_param", "course_name"}, {"course_title"}, {} }

\* CourseSearchTool.execute(self, query, course_name=None, lesson_number=None)
SearchSignature ==
    [required |-> {"query"}, optional |-> {"course_name", "lesson_number"},
     var_keyword |-> FALSE]
\* Tool.execute and CourseOutlineTool.execute: (self, **kwargs)
OutlineSignature == [required |-> {}, optional |-> {}, var_keyword |-> TRUE]

\* Python binding keyword arguments to the parameters of a signature
BindArguments(sig, kwargs) ==
    IF ~sig.var_keyword /\ kwargs \ (sig.required \cup sig.optional) # {}
    THEN "got an unexpected keyword argument"
    ELSE IF ~(sig.required \subseteq kwargs)
    THEN "missing a required argument"
    ELSE "ok"

\* SearchResults(documents, metadata, distances) for the lessons found, in
\* the order the store returns them
Document(n) == "passage " \o ToString(n)
Metadata(n) == [course_title |-> "MCP Course", lesson_number |-> n]
\* SearchResults with one distance fewer than documents
SearchResultsShortDistances(lessons) ==
    [documents |-> [i \in 1..Len(lessons) |-> Document(lessons[i])],
     metadata |-> [i \in 1..Len(lessons) |-> Metadata(lessons[i])],
     distances |-> [i \in 1..(Len(lessons) - 1) |-> 4 + i],
     error |-> ""]
SearchResults(lessons) ==
    [documents |-> [i \in 1..Len(lessons) |-> Document(lessons[i])],
     metadata |-> [i \in 1..Len(lessons) |-> Metadata(lessons[i])],
     distances |-> [i \in 1..Len(lessons) |-> 4 + i],
     error |-> ""]
\* SearchResults.empty(error_msg)
SearchResultsEmpty(msg) ==
    [documents |-> <<>>, metadata |-> <<>>, distances |-> <<>>, error |-> msg]

\* what store.search does: it returns results, or it raises
StoreAnswers ==
    { [kind |-> "results", results |-> r] :
        r \in { SearchResults(<<>>), SearchResults(<<1>>), SearchResults(<<1, 2>>),
                SearchResults(<<2, 1>>),
                SearchResultsEmpty("Database connection failed") } }
    \cup { [kind |-> "raise", results |-> SearchResultsEmpty("Database crashed")] }

ToolReturn(s) == [kind |-> "return", type |-> "", value |-> s]
ToolRaise(t, s) == [kind |-> "raise", type |-> t, value |-> s]

\* ResultCase looking at the documents before the error
ResultCaseEmptyFirst(results) ==
    IF Len(results.documents) = 0 THEN "empty"
    ELSE IF results.error # "" THEN "error" ELSE "items"

\* how CourseSearchTool.execute reads the results of the store: the error
\* first, then emptiness
ResultCase(results) ==
    IF results.error # "" THEN "error"
    ELSE IF Len(results.documents) = 0 THEN "empty" ELSE "items"

\* ErrorOutput wrapping the reason into a message of its own
ErrorOutputWrapped(results) == "Search failed: " \o results.error

\* the output for a failure of the store: the reason itself
ErrorOutput(results) == results.error

\* the output for a result without items; it names the filters in force
EmptyOutput(kwargs) ==
    "No relevant content found"
        \o (IF "course_name" \in kwargs THEN " in course 'MCP Course'" ELSE "")
        \o (IF "lesson_number" \in kwargs THEN " in lesson 1" ELSE "")
        \o "."

NoCourseOutput == "No course found matching 'MCP'"

\* the citation of one item
CitationText(meta) ==
    meta.course_title \o " - Lesson " \o ToString(meta.lesson_number)

RECURSIVE FormatFrom(_, _)
FormatFrom(results, i) ==
    IF i > Len(results.documents) THEN ""
    ELSE "[" \o CitationText(results.metadata[i]) \o "]\n" \o results.documents[i]
            \o (IF i < Len(results.documents) THEN "\n\n" ELSE "")
            \o FormatFrom(results, i + 1)

\* _format_results: the text, one header and passage per item
FormatResults(results) == FormatFrom(results, 1)

\* FormatSources citing the items last to first
FormatSourcesReversed(results) ==
    [i \in 1..Len(results.documents) |->
        CitationText(results.metadata[Len(results.documents) + 1 - i])]

\* _format_results: the citations, one per item, in the order of the items
FormatSources(results) ==
    [i \in 1..Len(results.documents) |-> CitationText(results.metadata[i])]

\* Unresolved when a name without a match is searched for all the same
UnresolvedIgnored(kwargs, resolves) == FALSE

\* a course name was given and the store resolves it to no course
Unresolved(kwargs, resolves) == "course_name" \in kwargs /\ ~resolves

\* CourseSearchTool.execute(**kwargs) when the course name resolves or not
\* and the store answers as given: what it returns or raises, the citations
\* it records, and whether it searched the store
CourseSearchTool_execute(kwargs, resolves, store) ==
    LET bound == BindArguments(SearchSignature, kwargs) IN
    IF bound # "ok"
    THEN [outcome |-> ToolRaise("TypeError", "execute() " \o bound),
          sources |-> <<>>, searched |-> FALSE]
    ELSE IF Unresolved(kwargs, resolves)
    THEN [outcome |-> ToolReturn(NoCourseOutput), sources |-> <<>>,
          searched |-> FALSE]
    ELSE IF store.kind = "raise"
    THEN [outcome |-> ToolRaise("Exception", store.results.error),
          sources |-> <<>>, searched |-> TRUE]
    ELSE IF ResultCase(store.results) = "error"
    THEN [outcome |-> ToolReturn(ErrorOutput(store.results)), sources |-> <<>>,
          searched |-> TRUE]
    ELSE IF ResultCase(store.results) = "empty"
    THEN [outcome |-> ToolReturn(EmptyOutput(kwargs)), sources |-> <<>>,
          searched |-> TRUE]
    ELSE [outcome |-> ToolReturn(FormatResults(store.results)),
          sources |-> FormatSources(store.results), searched |-> TRUE]

\* CourseOutlineTool.execute(**kwargs): it records no citation
CourseOutlineTool_execute(kwargs, resolves) ==
    IF BindArguments(OutlineSignature, kwargs) # "ok"
    THEN [outcome |-> ToolRaise("TypeError", "execute() "
                                   \o BindArguments(OutlineSignature, kwargs)),
          sources |-> <<>>, searched |-> FALSE]
    ELSE IF "course_title" \notin kwargs
    THEN [outcome |-> ToolReturn("course_title is required"), sources |-> <<>>,
          searched |-> FALSE]
    ELSE IF ~resolves
    THEN [outcome |-> ToolReturn(NoCourseOutput), sources |-> <<>>,
          searched |-> FALSE]
    ELSE [outcome |-> ToolReturn("Course: MCP Course"), sources |-> <<>>,
          searched |-> FALSE]

\* the tools registered with the tool manager, and the names a call can use
RegisteredTools == {"search_course_content", "get_course_outline"}
ToolCallNames == RegisteredTools \cup {"unknown_tool"}

\* the keys a tool cannot do without
RequiredKeys(name) ==
    IF name = "search_course_content" THEN {"query"} ELSE {"course_title"}

\* ToolManager.execute_tool(name, **kwargs): an unknown name is answered with
\* a message, an exception of the tool is turned into a message
ToolManager_execute_tool(name, kwargs, resolves, store) ==
    IF name \notin RegisteredTools
    THEN [executed |-> FALSE, tool |-> ToolReturn(""),
          outcome |-> ToolReturn(NotFoundOutput(name)),
          sources |-> <<>>, searched |-> FALSE]
    ELSE LET t == IF name = "search_course_content"
                  THEN CourseSearchTool_execute(kwargs, resolves, store)
                  ELSE CourseOutlineTool_execute(kwargs, resolves)
         IN [executed |-> TRUE, tool |-> t.outcome,
             outcome |-> IF t.outcome.kind = "raise"
                         THEN ToolReturn("execution failed: " \o t.outcome.value)
                         ELSE t.outcome,
             sources |-> t.sources, searched |-> t.searched]

\* the id of the tool-call block the direct calls are made for
DirectCallId == 1

\* one tool call as lines 166-183 make it for a tool_use block
ExecuteToolDirect ==
    /\ pc = "idle"
    /\ \E name \in ToolCallNames, kwargs \in ParamMappings, resolves \in BOOLEAN,
          store \in StoreAnswers :
        LET r == ToolManager_execute_tool(name, kwargs, resolves, store)
            block == ToolUseBlock(DirectCallId, name, kwargs)
        IN
        /\ Len(last_sources) + Len(r.sources) <= MaxSources
        /\ last_sources' = last_sources \o r.sources
        /\ tool_call' = [op |-> "execute", name |-> name, kwargs |-> kwargs,
                         resolves |-> resolves, store |-> store,
                         executed |-> r.executed, tool |-> r.tool,
                         outcome |-> r.outcome, searched |-> r.searched,
                         recorded |-> OutcomeResult(block, r.outcome),
                         before |-> last_sources, added |-> r.sources]
    /\ sources' = NoSources
    /\ UNCHANGED <<pc, query, system_content, max_rounds, tools, tool_manager, round_num, messages,
                   response, block_idx, tool_results, api_calls, invocations, result,
                   in_flight, query_count, threads, stored_params, conversation_history, manager_tools, registrations, parked>>

\* reset_sources()
ResetSources ==
    /\ pc = "idle"
    /\ last_sources' = <<>>
    /\ tool_call' = [op |-> "reset"]
    /\ sources' = NoSources
    /\ UNCHANGED <<pc, query, system_content, max_rounds, tools, tool_manager, round_num, messages,
                   response, block_idx, tool_results, api_calls, invocations, result,
                   in_flight, query_count, threads, stored_params, conversation_history, manager_tools, registrations, parked>>

\* get_last_sources(), right after the last call or reset
GetLastSources ==
    /\ pc = "idle"
    /\ ~sources.read
    /\ sources' = [read |-> TRUE, citations |-> last_sources]
    /\ UNCHANGED <<pc, query, system_content, max_rounds, tools, tool_manager, round_num, messages,
                   response, block_idx, tool_results, api_calls, invocations, result,
                   in_flight, query_count, last_sources, threads, stored_params, conversation_history, manager_tools, registrations, parked, tool_call>>

NextTools ==
    \/ ExecuteToolDirect
    \/ ResetSources
    \/ GetLastSources

SpecTools == Init /\ [][NextTools]_vars

----------------------------------------------------------------------------
(* Tools being registered with a tool manager *)

\* largest number of register_tool calls on one tool manager
MaxRegistrations == 3
\* number of distinct tool objects that carry the same name
NumToolObjects == 2

\* the tools offered for registration: a name and the object carrying it
ToolObjects == ToolNames \X (1..NumToolObjects)

\* RegisterTool keeping the earlier tool next to the new one
RegisterToolKeepBoth(registered, tool) == registered \cup {tool}

\* register_tool(tool): the tool is stored under its name and takes the
\* place of a tool stored under that name before
RegisterTool(registered, tool) ==
    { t \in registered : t[1] # tool[1] } \cup {tool}

\* ToolManager(): no tool registered
InitRegistry ==
    /\ pc = "idle"
    /\ query = ""
    /\ max_rounds = 2
    /\ tools = ToolsNone
    /\ tool_manager = FALSE
    /\ round_num = 0
    /\ messages = <<>>
    /\ response = NoResponse
    /\ block_idx = 0
    /\ tool_results = <<>>
    /\ api_calls = <<>>
    /\ invocations = <<>>
    /\ result = NoResult
    /\ in_flight = {}
    /\ query_count = 0
    /\ last_sources = <<>>
    /\ sources = NoSources
    /\ threads = 1
    /\ parked = IdleLocals
    /\ tool_call = NoToolCall
    /\ conversation_history = HistoryNone
    /\ system_content = ""
    /\ manager_tools = {}
    /\ registrations = <<>>
    /\ stored_params = InitialParams

\* tool_manager.register_tool(tool)
Register ==
    /\ pc = "idle"
    /\ Len(registrations) < MaxRegistrations
    /\ \E tool \in ToolObjects :
        /\ manager_tools' = RegisterTool(manager_tools, tool)
        /\ registrations' = Append(registrations, tool)
    /\ UNCHANGED <<pc, query, system_content, max_rounds, tools, tool_manager,
                   round_num, messages, response, block_idx, tool_results, api_calls,
                   invocations, result, in_flight, query_count, last_sources, sources,
                   threads, stored_params, conversation_history, parked, tool_call>>

NextRegistry == Register

SpecRegistry == InitRegistry /\ [][NextRegistry]_vars

----------------------------------------------------------------------------
(* One query that can be interrupted during a tool call *)

\* what is said of an exception that is not an Exception
InterruptText == "KeyboardInterrupt"

\* lines 167-177: while execute_tool runs, the thread is interrupted
\* (KeyboardInterrupt, SystemExit, a cancellation). `except Exception` does
\* not catch what is not an Exception: it leaves the for loop,
\* _execute_tools_and_update_messages and generate_response. Line 161 has
\* appended the assistant turn already; lines 186-187 are not reached.
AbortToolCall ==
    /\ pc = "exec"
    /\ \E op \in in_flight : op.kind = "tool"
    /\ in_flight' = {}
    /\ result' = Raised(InterruptText)
    /\ pc' = "raised"
    /\ UNCHANGED <<query, system_content, max_rounds, tools, tool_manager, round_num,
                   messages, response, block_idx, tool_results, api_calls, invocations,
                   query_count, last_sources, sources, threads, stored_params, conversation_history,
                   manager_tools, registrations, parked, tool_call>>

NextAbort ==
    \/ Next
    \/ AbortToolCall

SpecAbort == Init /\ [][NextAbort]_vars

----------------------------------------------------------------------------
(* Vocabulary of the properties *)

NumCalls == Len(api_calls)
Finished == pc \in {"returned", "raised"}

\* call k got a response asking for tools / a direct answer / no response
IsToolRequest(k) ==
    api_calls[k].outcome = "response" /\ api_calls[k].response.stop_reason = "tool_use"
IsDirect(k) ==
    api_calls[k].outcome = "response" /\ api_calls[k].response.stop_reason # "tool_use"
CallFailed(k) == api_calls[k].outcome = "raise"

\* the response's text, response.content[0].text, exists
HasLeadingText(resp) == Len(resp.content) > 0 /\ resp.content[1].type = "text"
LeadingText(resp) == resp.content[1].text
HasTextBlock(resp) == \E i \in 1..Len(resp.content) : resp.content[i].type = "text"

\* the tool-call blocks of a content list, in order
IsToolUse(b) == b.type = "tool_use"
ToolBlocks(content) == SelectSeq(content, IsToolUse)

\* generate_response returned the text of call k's response
ReturnedTextOf(k) == result = Returned(LeadingText(api_calls[k].response))

----------------------------------------------------------------------------
(* Properties *)

\* C1: for max_rounds >= 1, whatever the model answers and whatever the tools
\* do, one generate_response makes at most max_rounds + 1 model-service calls.
C1_AtMostRoundsPlusOneCalls ==
    max_rounds >= 1 => NumCalls <= max_rounds + 1

\* C1 witness: a query that used the whole budget of max_rounds + 1 calls
C1_Witness ==
    /\ pc = "returned"
    /\ max_rounds >= 1
    /\ NumCalls = max_rounds + 1

\* C2: if the first response is a direct answer (stop reason not tool_use),
\* generate_response makes exactly one model-service call, invokes no tool and
\* returns that response's text (content[0].text, where the response has one),
\* for every max_rounds >= 1, tools argument and tool manager.
C2_DirectAnswerEndsAfterOneCall ==
    (max_rounds >= 1 /\ NumCalls >= 1 /\ IsDirect(1)) =>
        /\ NumCalls = 1
        /\ invocations = <<>>
        /\ Finished
        /\ HasLeadingText(api_calls[1].response) =>
               (pc = "returned" /\ ReturnedTextOf(1))

\* C2 witness: a direct first answer was returned although tools and a tool
\* manager were supplied and two rounds were allowed
C2_Witness ==
    /\ pc = "returned"
    /\ max_rounds = 2 /\ tool_manager /\ Truthy(tools)
    /\ NumCalls = 1 /\ IsDirect(1)
    /\ result = Returned(AnswerText(1))

\* C3: with a tool manager and max_rounds >= 1: if the first k responses
\* (0 <= k < max_rounds) request tools and response k + 1 is a direct answer,
\* exactly k + 1 calls are made and the text of response k + 1 is returned; if
\* the first max_rounds responses all request tools, exactly max_rounds + 1
\* calls are made.
C3_CallCountFollowsToolRequests ==
    (tool_manager /\ max_rounds >= 1) =>
        /\ \A k \in 0..(max_rounds - 1) :
              ( /\ NumCalls >= k + 1
                /\ \A j \in 1..k : IsToolRequest(j)
                /\ IsDirect(k + 1) ) =>
                    /\ NumCalls = k + 1
                    /\ Finished
                    /\ HasLeadingText(api_calls[k + 1].response) =>
                           (pc = "returned" /\ ReturnedTextOf(k + 1))
        /\ ( /\ Finished
             /\ NumCalls >= max_rounds
             /\ \A j \in 1..max_rounds : IsToolRequest(j) ) =>
                 NumCalls = max_rounds + 1

\* C3 witness: one tool round, then a direct answer that is returned (k = 1)
C3_Witness ==
    /\ pc = "returned"
    /\ tool_manager /\ max_rounds = 2
    /\ NumCalls = 2 /\ IsToolRequest(1) /\ IsDirect(2)
    /\ result = Returned(AnswerText(2))

\* C4: when max_rounds rounds are done and every one requested tools,
\* exactly one further call is made, without tools and without tool_choice;
\* its text is returned whatever its stop reason, and no tool runs after it.
C4_ForcedFinalCall ==
    (max_rounds >= 1 /\ round_num = max_rounds) =>
        /\ \A j \in 1..max_rounds : IsToolRequest(j)
        /\ pc \in {"final", "returned", "raised"}
        /\ pc = "final" => NumCalls = max_rounds
        /\ Finished =>
            /\ NumCalls = max_rounds + 1
            /\ ~api_calls[NumCalls].params.has_tools
            /\ api_calls[NumCalls].params.tools = <<>>
            /\ api_calls[NumCalls].params.tool_choice = ""
            /\ \A i \in 1..Len(invocations) : invocations[i].after_call <= max_rounds
            /\ ( /\ api_calls[NumCalls].outcome = "response"
                 /\ HasLeadingText(api_calls[NumCalls].response) ) =>
                     (pc = "returned" /\ ReturnedTextOf(NumCalls))

\* C4 witness: after two tool rounds the final call answers with stop reason
\* tool_use and its text is returned all the same
C4_Witness ==
    /\ pc = "returned"
    /\ max_rounds = 2 /\ round_num = 2 /\ Truthy(tools)
    /\ NumCalls = 3
    /\ api_calls[3].response.stop_reason = "tool_use"
    /\ result = Returned(AnswerText(3))

\* the tool_result entries recorded so far, oldest first: those of the turns
\* in the conversation, then those of the round in progress
RecordedResults ==
    LET Flat[i \in 0..Len(messages)] ==
            IF i = 0 THEN <<>>
            ELSE IF messages[i].kind = "tool_results"
                 THEN Flat[i - 1] \o messages[i].blocks
                 ELSE Flat[i - 1]
    IN Flat[Len(messages)] \o tool_results

\* C5: an exception raised by a tool invocation does not leave
\* generate_response: the invocation is recorded in the conversation as an
\* error string carrying the request's id, and the generator goes on to the
\* next model-service call.
C5_ToolExceptionAbsorbed ==
    \A i \in 1..Len(invocations) :
        invocations[i].outcome.kind = "raise" =>
            /\ result # Raised(invocations[i].outcome.value)
            /\ Len(RecordedResults) >= i
            /\ RecordedResults[i] =
                  [type |-> "tool_result",
                   tool_use_id |-> invocations[i].id,
                   content |-> "Tool execution failed: "
                               \o invocations[i].outcome.value]
            /\ \/ pc \in {"exec", "loop", "final"}
               \/ NumCalls > invocations[i].after_call

\* C5 witness: a tool raised in round 1 and the query still returned an answer
C5_Witness ==
    /\ pc = "returned"
    /\ Len(invocations) >= 1
    /\ invocations[1].outcome.kind = "raise"
    /\ NumCalls > invocations[1].after_call

\* C6: if the k-th model-service call raises, the failure reaches the caller
\* and nothing is retried: exactly k calls were made, and no tool invocation
\* and no model call follows.
C6_ModelFailurePropagates ==
    \A k \in 1..NumCalls :
        CallFailed(k) =>
            /\ k = NumCalls
            /\ pc = "raised"
            /\ result = Raised("APIError")
            /\ \A i \in 1..Len(invocations) : invocations[i].after_call < k

\* C6 witness: the second call of a query failed after a tool round
C6_Witness ==
    /\ NumCalls = 2
    /\ CallFailed(2)
    /\ Len(invocations) >= 1

\* C7 (as claimed): generate_response raises only when a model-service call
\* raised; for every response the service returns it returns a string.
C7_RaisesOnlyOnModelFailure ==
    pc = "raised" => (NumCalls >= 1 /\ CallFailed(NumCalls))

\* C8 (as claimed): tools requested without a tool manager: no invocation, no
\* further call, and the answer is the response's text if it has any, the
\* placeholder otherwise (also when it holds only tool-call blocks).
C8_NoManagerAnswerOrPlaceholder ==
    (max_rounds >= 1 /\ ~tool_manager /\ NumCalls >= 1 /\ IsToolRequest(1)) =>
        /\ NumCalls = 1
        /\ invocations = <<>>
        /\ pc = "returned"
        /\ HasTextBlock(api_calls[1].response) =>
               \E i \in 1..Len(api_calls[1].response.content) :
                   /\ api_calls[1].response.content[i].type = "text"
                   /\ result = Returned(api_calls[1].response.content[i].text)
        /\ ~HasTextBlock(api_calls[1].response) =>
               result = Returned(PlaceholderText)

\* the conversation as it stood when round k ended (round k follows call k)
ConvAfterRound(k) ==
    IF k < NumCalls THEN api_calls[k + 1].params.messages ELSE messages

\* C9: a tool-requesting response with n >= 1 tool-call blocks extends the
\* conversation by exactly two turns: an assistant turn echoing the response's
\* content blocks, then one single user turn holding exactly n outcomes, one
\* per tool-call block whether the invocation succeeded or failed.
C9_RoundAddsTwoTurns ==
    \A k \in 1..round_num :
        LET before == api_calls[k].params.messages
            after == ConvAfterRound(k)
            content == api_calls[k].response.content
            n == Len(ToolBlocks(content))
        IN n >= 1 =>
            /\ Len(after) = Len(before) + 2
            /\ SubSeq(after, 1, Len(before)) = before
            /\ after[Len(before) + 1] = AssistantTurn(content)
            /\ after[Len(before) + 2].role = "user"
            /\ after[Len(before) + 2].kind = "tool_results"
            /\ Len(after[Len(before) + 2].blocks) = n
            /\ \A i \in 1..n :
                  after[Len(before) + 2].blocks[i].type = "tool_result"

\* C9 witness: a finished round whose response held two tool calls, one that
\* succeeded and one that failed
C9_Witness ==
    /\ round_num >= 1
    /\ pc \in {"loop", "final"}
    /\ Len(ToolBlocks(api_calls[1].response.content)) = 2
    /\ Len(invocations) = 2
    /\ invocations[1].outcome.kind = "return"
    /\ invocations[2].outcome.kind = "raise"

\* the invocations made in the round that follows call k, in order
IdsInvokedAfter(k) ==
    LET InRound(v) == v.after_call = k
        sel == SelectSeq(invocations, InRound)
    IN [i \in 1..Len(sel) |-> sel[i].id]

\* C10: within a round the outcomes are appended in request order and
\* correlated by id: the i-th outcome of the batched user turn carries the id
\* of the i-th tool-call block of the preceding assistant turn, and the tools
\* are invoked in that same order.
C10_OutcomesInRequestOrder ==
    /\ \A k \in 1..round_num :
          LET before == api_calls[k].params.messages
              after == ConvAfterRound(k)
              calls == ToolBlocks(after[Len(before) + 1].blocks)
          IN Len(calls) >= 1 =>
              /\ Len(after[Len(before) + 2].blocks) = Len(calls)
              /\ \A i \in 1..Len(calls) :
                    after[Len(before) + 2].blocks[i].tool_use_id = calls[i].id
              /\ IdsInvokedAfter(k) = [i \in 1..Len(calls) |-> calls[i].id]
    /\ pc = "exec" =>
          LET calls == ToolBlocks(response.content) IN
          /\ Len(tool_results) <= Len(calls)
          /\ \A i \in 1..Len(tool_results) :
                tool_results[i].tool_use_id = calls[i].id
          /\ IdsInvokedAfter(NumCalls) =
                [i \in 1..Len(tool_results) |-> calls[i].id]

\* C10 witness: a finished round with two tool calls of different names
C10_Witness ==
    /\ round_num >= 1
    /\ pc \in {"loop", "final"}
    /\ Len(invocations) = 2
    /\ invocations[1].after_call = 1 /\ invocations[2].after_call = 1
    /\ invocations[1].name # invocations[2].name
    /\ invocations[1].id # invocations[2].id

\* C11: within one query the model-service calls and the tool invocations are
\* strictly sequential: at most one call is in progress at any time; while
\* the invocation of the i-th tool call of a round is in progress, exactly
\* the i - 1 invocations before it have finished; and while a model-service
\* call is in progress, every tool call of every earlier round has finished.
C11_StrictlySequential ==
    /\ Cardinality(in_flight) <= 1
    /\ \A op \in in_flight :
        /\ op.kind = "model" =>
              /\ pc \in {"loop", "final"}
              /\ op.n = NumCalls + 1
              /\ \A k \in 1..NumCalls :
                    Len(IdsInvokedAfter(k)) =
                        Len(ToolBlocks(api_calls[k].response.content))
        /\ op.kind = "tool" =>
              /\ pc = "exec"
              /\ LET calls == ToolBlocks(response.content) IN
                 \E i \in 1..Len(calls) :
                    /\ calls[i].id = op.n
                    /\ Len(IdsInvokedAfter(NumCalls)) = i - 1
                    /\ Len(tool_results) = i - 1

\* C11 witness: the second model-service call is in progress after a round
\* whose two invocations have both finished
C11_Witness ==
    /\ ModelOp(2) \in in_flight
    /\ Len(invocations) = 2
    /\ Len(ToolBlocks(api_calls[1].response.content)) = 2

\* a is an initial segment of b
IsPrefix(a, b) ==
    /\ Len(a) <= Len(b)
    /\ \A i \in 1..Len(a) : a[i] = b[i]

\* C12: the conversation of a query is append-only: from the moment the
\* query is received its first turn is the user turn holding the query; the
\* conversation sent with a model-service call is a prefix of the one sent
\* with the next call and of the current conversation; and no step of
\* generate_response removes, reorders or replaces a turn (the conversation
\* before a step is a prefix of the conversation after it).
C12_ConversationAppendOnly ==
    /\ [](pc # "idle" =>
            /\ Len(messages) >= 1
            /\ messages[1] = UserTurn(query)
            /\ \A k \in 1..NumCalls :
                  /\ api_calls[k].params.messages[1] = UserTurn(query)
                  /\ IsPrefix(api_calls[k].params.messages, messages)
                  /\ k > 1 => IsPrefix(api_calls[k - 1].params.messages,
                                       api_calls[k].params.messages))
    /\ [][pc # "idle" /\ pc' # "idle" => IsPrefix(messages, messages')]_vars

\* C12 witness: the third model-service call has been answered, its
\* conversation being strictly longer than the second call's, which is
\* strictly longer than the first call's
C12_Witness ==
    /\ NumCalls = 3
    /\ Len(api_calls[1].params.messages) < Len(api_calls[2].params.messages)
    /\ Len(api_calls[2].params.messages) < Len(api_calls[3].params.messages)

\* C13: at the start of each query the citation record of the tool manager
\* is reset, so while the first tool invocation of a query is in progress
\* (nothing of that query recorded yet) the record is empty.
C13_LogEmptyAtFirstInvocation ==
    \A op \in in_flight :
        op.kind = "tool" /\ Len(invocations) = 0 => last_sources = <<>>

\* C14: no citation leaks from one query into a later one: what the caller
\* reads after a query holds only citations recorded by that query's own
\* invocations, and it is empty for a query that invoked no tool.
C14_NoCrossQueryLeakage ==
    /\ \A j \in 1..Len(sources.citations) : sources.citations[j].query = query
    /\ sources.read /\ Len(invocations) = 0 => sources.citations = <<>>

\* the turn was produced by the call with locals l: it is the user turn with
\* its query, the echo of one of its model responses, or outcomes of its own
\* invocations
TurnIsOwn(l, turn) ==
    /\ turn.kind = "text" => turn = UserTurn(l.query)
    /\ turn.kind = "blocks" =>
          \E k \in 1..Len(l.api_calls) :
              /\ l.api_calls[k].outcome = "response"
              /\ turn.blocks = l.api_calls[k].response.content
    /\ turn.kind = "tool_results" =>
          \A i \in 1..Len(turn.blocks) :
              \E n \in 1..Len(l.invocations) :
                  turn.blocks[i].tool_use_id = l.invocations[n].id

\* the call with locals l is between its start and its end
Running(l) == l.pc \in {"loop", "exec", "final"}

\* the two calls share nothing, seen from the call with locals l while the
\* other call has locals o
SharesNothing(l, o) ==
    /\ \A i \in 1..Len(l.messages) :
          /\ TurnIsOwn(l, l.messages[i])
          /\ o.query # "" => l.messages[i] # UserTurn(o.query)
    /\ l.sources.read /\ Running(o) =>
          \A j \in 1..Len(l.sources.citations) :
              l.sources.citations[j].query = l.query

\* C15: two queries that run at the same time on the same generator and the
\* same tool manager share no mutable state: the conversation of each holds
\* only its own turns, and the citations read for one query while the other
\* is still running hold no citation recorded by the other.
C15_ConcurrentQueriesShareNothing ==
    /\ SharesNothing(Locals, parked)
    /\ SharesNothing(parked, Locals)

\* the last direct call ran search_course_content, bound its arguments, got
\* past the course name and put the search to the store
SearchReachedStore ==
    /\ tool_call.op = "execute"
    /\ tool_call.name = "search_course_content"
    /\ tool_call.searched

\* the texts that say that nothing was found
NoContentTexts ==
    { "No relevant content found" \o c \o l \o "." :
        c \in {"", " in course 'MCP Course'"}, l \in {"", " in lesson 1"} }

\* the failure reasons of the store
FailureReasons ==
    { a.results.error : a \in { b \in StoreAnswers : b.results.error # "" } }

\* C16: when the store returns a failure result, the content search returns
\* exactly the failure reason as its output, raises nothing (neither the tool
\* nor the tool manager) and records no citation.
C16_StoreFailureReturnedVerbatim ==
    SearchReachedStore /\ tool_call.store.kind = "results"
            /\ tool_call.store.results.error # "" =>
        /\ tool_call.tool = ToolReturn(tool_call.store.results.error)
        /\ tool_call.outcome = ToolReturn(tool_call.store.results.error)
        /\ tool_call.added = <<>>
        /\ last_sources = tool_call.before

\* C16 witness: a search with valid arguments met a failing store while
\* citations of an earlier search were on record
C16_Witness ==
    /\ SearchReachedStore
    /\ tool_call.store.kind = "results"
    /\ tool_call.store.results.error = "Database connection failed"
    /\ tool_call.kwargs = {"query"}
    /\ tool_call.before # <<>>

\* C17: when the store returns a successful result with zero items, the
\* content search returns a "no relevant content found" message and records
\* no citation; an empty result is never answered with a failure reason and
\* a failure result is never answered with a "no relevant content" message.
C17_EmptyResultIsNotFailure ==
    SearchReachedStore /\ tool_call.store.kind = "results" =>
        LET res == tool_call.store.results IN
        /\ res.error = "" /\ Len(res.documents) = 0 =>
              /\ tool_call.tool.kind = "return"
              /\ tool_call.tool.value \in NoContentTexts
              /\ tool_call.tool.value \notin FailureReasons
              /\ tool_call.added = <<>>
              /\ last_sources = tool_call.before
        /\ res.error # "" => tool_call.tool.value \notin NoContentTexts

\* C17 witness: a search filtered by course and lesson got a successful
\* result without items
C17_Witness ==
    /\ SearchReachedStore
    /\ tool_call.store = [kind |-> "results", results |-> SearchResults(<<>>)]
    /\ tool_call.kwargs = {"query", "course_name", "lesson_number"}

\* C18: when the citations are read right after a tool call that recorded
\* some, they end with one citation per item the store returned, in the
\* order of the items; read right after a reset they are empty.
C18_CitationsPerItemInOrder ==
    sources.read =>
        /\ tool_call.op = "execute" /\ Len(tool_call.added) > 0 =>
              LET meta == tool_call.store.results.metadata
                  n == Len(meta)
                  c == sources.citations
              IN /\ Len(c) = Len(tool_call.before) + n
                 /\ \A i \in 1..n : c[Len(c) - n + i] = CitationText(meta[i])
        /\ tool_call.op = "reset" => sources.citations = <<>>

\* C18 witness: the citations were read after a search that found lesson 2
\* before lesson 1
C18_Witness ==
    /\ sources.read
    /\ tool_call.op = "execute"
    /\ tool_call.store.results = SearchResults(<<2, 1>>)
    /\ Len(tool_call.added) = 2

\* C19: a content search called without the required query yields a
\* validation failure that is returned as output text: the tool returns a
\* text, nothing is raised past execute_tool, and the tool_result the
\* orchestrator builds holds that text.
C19_MissingQueryReturnedAsText ==
    /\ tool_call.op = "execute"
    /\ tool_call.name = "search_course_content"
    /\ "query" \notin tool_call.kwargs
    => /\ tool_call.tool.kind = "return"
       /\ tool_call.outcome.kind = "return"
       /\ tool_call.recorded.content = tool_call.tool.value

\* C20: the execute of every registered tool accepts any mapping of string
\* keys: with the required keys present, extra or differently named keys
\* never make it fail with an argument-mismatch exception (TypeError).
C20_ExecuteAcceptsAnyMapping ==
    /\ tool_call.op = "execute"
    /\ tool_call.executed
    /\ RequiredKeys(tool_call.name) \subseteq tool_call.kwargs
    => ~(tool_call.tool.kind = "raise" /\ tool_call.tool.type = "TypeError")

\* a tool is registered under the name (tests/conftest.py and, for
\* broken_tool, tests/test_real_world_scenario.py)
IsRegistered(name) == name \in RegisteredTools \cup {"broken_tool"}

\* C21: when the model requests a name under which no tool is registered,
\* the tool manager returns an error string and raises nothing; the
\* generator records that string, unchanged, as the outcome of the request
\* (as it records the text a tool returned) and goes on to the next
\* model-service call.
C21_UnknownToolIsAnOutcome ==
    \A i \in 1..Len(invocations) :
        ~IsRegistered(invocations[i].name) =>
            /\ invocations[i].outcome =
                  [kind |-> "return", value |-> NotFoundOutput(invocations[i].name)]
            /\ Len(RecordedResults) >= i
            /\ RecordedResults[i] =
                  [type |-> "tool_result",
                   tool_use_id |-> invocations[i].id,
                   content |-> NotFoundOutput(invocations[i].name)]
            /\ \/ pc \in {"exec", "loop", "final"}
               \/ NumCalls > invocations[i].after_call

\* C21 witness: the only tool call of round 1 named an unknown tool, and
\* the second model-service call answered the query
C21_Witness ==
    /\ pc = "returned"
    /\ Len(invocations) = 1
    /\ invocations[1].name = "unknown_tool"
    /\ NumCalls = 2 /\ IsDirect(2)

\* C22: generate_response always terminates. Provided every model-service
\* call and every tool invocation returns or raises, a query that was started
\* ends (it returns, or an exception leaves it), and it never runs more than
\* max_rounds tool rounds, whatever the model answers, also when every one
\* of its responses requests tools.
C22_AlwaysTerminates ==
    /\ [](round_num <= (IF max_rounds > 0 THEN max_rounds ELSE 0))
    /\ (pc # "idle") ~> Finished

\* C22 witness: every response of the query requested tools, the final one
\* included, and the query ended after max_rounds rounds
C22_Witness ==
    /\ Finished
    /\ max_rounds = MaxRoundsBound /\ round_num = max_rounds
    /\ NumCalls = max_rounds + 1
    /\ \A k \in 1..NumCalls :
          /\ IsToolRequest(k)
          /\ WantsToolsByContent(api_calls[k].response)

\* C23: in the content search, when a course name is given and the store
\* resolves it to no course, the tool returns a "no course found" text,
\* puts no search to the store and records no citation.
C23_UnresolvedCourseShortCircuits ==
    /\ tool_call.op = "execute"
    /\ tool_call.name = "search_course_content"
    /\ BindArguments(SearchSignature, tool_call.kwargs) = "ok"
    /\ "course_name" \in tool_call.kwargs
    /\ ~tool_call.resolves
    => /\ tool_call.tool = ToolReturn(NoCourseOutput)
       /\ tool_call.outcome = ToolReturn(NoCourseOutput)
       /\ ~tool_call.searched
       /\ tool_call.added = <<>>
       /\ last_sources = tool_call.before

\* C23 witness: a search by query, course and lesson whose course name has
\* no match, while the store held items and citations were on record
C23_Witness ==
    /\ tool_call.op = "execute"
    /\ tool_call.name = "search_course_content"
    /\ tool_call.kwargs = {"query", "course_name", "lesson_number"}
    /\ ~tool_call.resolves
    /\ tool_call.store = [kind |-> "results", results |-> SearchResults(<<1, 2>>)]
    /\ tool_call.before # <<>>

\* the tools registered under a name
ToolsNamed(name) == { t \in manager_tools : t[1] = name }

\* the position of the last registration under the name of registration k
IsLastOfItsName(k) ==
    \A j \in (k + 1)..Len(registrations) : registrations[j][1] # registrations[k][1]

\* C24: registering two tools with the same name has one fixed outcome (the
\* later one takes the place of the earlier): after any sequence of
\* registrations every registered name maps to exactly one tool object, a
\* name never registered maps to none, and the mapping is determined by the
\* sequence alone.
C24_OneToolPerName ==
    /\ \A name \in ToolNames :
          Cardinality(ToolsNamed(name)) =
              IF \E k \in 1..Len(registrations) : registrations[k][1] = name
              THEN 1 ELSE 0
    /\ manager_tools =
          { registrations[k] : k \in { j \in 1..Len(registrations) : IsLastOfItsName(j) } }

\* C24 witness: two different tool objects were registered under the same
\* name, a tool of another name in between
C24_Witness ==
    /\ Len(registrations) = 3
    /\ registrations[1][1] = registrations[3][1]
    /\ registrations[1][2] # registrations[3][2]
    /\ registrations[2][1] # registrations[1][1]

\* the two kinds of results of the store
IsNormalResult(r) ==
    /\ r.error = ""
    /\ Len(r.documents) = Len(r.metadata)
    /\ Len(r.metadata) = Len(r.distances)
IsFailureResult(r) ==
    /\ r.error # ""
    /\ r.documents = <<>> /\ r.metadata = <<>> /\ r.distances = <<>>

InvokedAfter(k) ==
    LET InRound(v) == v.after_call = k IN SelectSeq(invocations, InRound)

\* C26: a failing invocation does not abort its round. A query with a tool
\* manager never ends inside a round it began: every round is finished. In
\* every finished round each tool-call block of the response was invoked, failed ones
\* before it or not, and has its own outcome in the results turn: what the
\* tool returned, or "Tool execution failed: " followed by the message of
\* the exception it raised.
C26_FailureDoesNotAbortRound ==
    /\ Finished /\ tool_manager =>
          \A k \in 1..NumCalls :
              k <= max_rounds /\ IsToolRequest(k) => k <= round_num
    /\ \A k \in 1..round_num :
        LET before == api_calls[k].params.messages
            after == ConvAfterRound(k)
            calls == ToolBlocks(api_calls[k].response.content)
            made == InvokedAfter(k)
        IN /\ Len(made) = Len(calls)
           /\ Len(calls) >= 1 =>
                /\ Len(after[Len(before) + 2].blocks) = Len(calls)
                /\ \A i \in 1..Len(calls) :
                      /\ made[i].id = calls[i].id
                      /\ after[Len(before) + 2].blocks[i] =
                            [type |-> "tool_result",
                             tool_use_id |-> calls[i].id,
                             content |->
                                IF made[i].outcome.kind = "raise"
                                THEN "Tool execution failed: " \o made[i].outcome.value
                                ELSE made[i].outcome.value]

\* C26 witness: in a finished round of two tool calls the first invocation
\* raised and the second returned
C26_Witness ==
    /\ round_num >= 1
    /\ pc \in {"loop", "final"}
    /\ Len(InvokedAfter(1)) = 2
    /\ InvokedAfter(1)[1].outcome.kind = "raise"
    /\ InvokedAfter(1)[2].outcome.kind = "return"

\* the citations the invocations of the running query have recorded, in
\* the order of the invocations
OwnCitations ==
    LET Rec[i \in 0..Len(invocations)] ==
            IF i = 0 THEN <<>>
            ELSE Rec[i - 1] \o SourcesOf(invocations[i], invocations[i].outcome, query)
    IN Rec[Len(invocations)]

\* b ends with a
IsSuffix(a, b) ==
    /\ Len(a) <= Len(b)
    /\ \A i \in 1..Len(a) : a[i] = b[Len(b) - Len(a) + i]

\* C27: the citation record is never reset in the middle of a query: at
\* every point of a query the record ends with the citations of all the
\* invocations the query has made so far, those of earlier rounds before
\* those of later rounds, and that is what the caller reads after the query.
C27_NoResetMidQuery ==
    /\ pc # "idle" => IsSuffix(OwnCitations, last_sources)
    /\ sources.read => IsSuffix(OwnCitations, sources.citations)

\* C27 witness: the caller read the citations of a query whose first and
\* second round each recorded one
C27_Witness ==
    /\ sources.read
    /\ Len(OwnCitations) = 2
    /\ Len(invocations) = 2
    /\ invocations[1].after_call = 1
    /\ invocations[2].after_call = 2
    /\ sources.citations[Len(sources.citations) - 1].id = invocations[1].id
    /\ sources.citations[Len(sources.citations)].id = invocations[2].id

\* call k was made inside the round loop (the loop makes the calls
\* 1..max_rounds, the call after it is the final one)
IsLoopCall(k) == k <= max_rounds

\* C28: the tool definitions are advertised on every round: each
\* model-service call made inside the round loop carries the tools argument
\* together with tool_choice auto when a non-empty list was supplied, and
\* neither tools nor tool_choice when None or an empty list was supplied;
\* only the final call after the loop withholds a supplied list.
C28_ToolsAdvertisedEachRound ==
    \A k \in 1..NumCalls :
        LET params == api_calls[k].params IN
        /\ IsLoopCall(k) /\ ~tools.none /\ Len(tools.defs) > 0 =>
              /\ params.has_tools
              /\ params.tools = tools.defs
              /\ params.tool_choice = "auto"
        /\ IsLoopCall(k) /\ (tools.none \/ Len(tools.defs) = 0) =>
              /\ ~params.has_tools
              /\ params.tools = <<>>
              /\ params.tool_choice = ""
        /\ ~IsLoopCall(k) =>
              /\ ~params.has_tools
              /\ params.tool_choice = ""
              /\ k = NumCalls /\ Finished

\* C28 witness: with a list of tools supplied, both calls of the loop
\* carried it and the final call did not
C28_Witness ==
    /\ NumCalls = 3 /\ max_rounds = 2
    /\ tools = [none |-> FALSE, defs |-> ToolDefs]
    /\ api_calls[1].params.tools = ToolDefs
    /\ api_calls[2].params.tools = ToolDefs
    /\ api_calls[2].params.tool_choice = "auto"
    /\ api_calls[3].params.tools = <<>>

\* the system instruction that would declare n tool rounds, for the
\* history of the running query
SystemDeclaring(n) ==
    IF HistoryGiven(conversation_history)
    THEN PromptDeclaring(n) \o HistoryHeading \o conversation_history.text
    ELSE PromptDeclaring(n)

\* C29 (as claimed): the system instruction sent with the model-service
\* calls of a query declares the round budget in force for that query: the
\* number of tool rounds it names is the max_rounds passed to
\* generate_response.
C29_PromptDeclaresMaxRounds ==
    \A k \in 1..NumCalls :
        api_calls[k].params.system = SystemDeclaring(max_rounds)

\* no summary of an earlier conversation was given: None or the empty text
NoSummary == conversation_history.none \/ conversation_history.text = ""

\* C30: the system instruction is the static system prompt exactly when no
\* summary of an earlier conversation is given (None or empty), and
\* otherwise the prompt followed by "\n\nPrevious conversation:\n" and the
\* summary; it is built once per query and every model-service call of the
\* query carries the same one.
C30_SystemContentBuiltOnce ==
    /\ pc # "idle" =>
          /\ NoSummary => system_content = SYSTEM_PROMPT
          /\ ~NoSummary =>
                system_content =
                    SYSTEM_PROMPT \o "\n\nPrevious conversation:\n"
                                  \o conversation_history.text
          /\ system_content = SYSTEM_PROMPT <=> NoSummary
    /\ \A k \in 1..NumCalls : api_calls[k].params.system = system_content

\* C30 witness: three calls of a query with a summary, each carrying the
\* prompt followed by the heading and the summary
C30_Witness ==
    /\ NumCalls = 3
    /\ conversation_history = HistoryText("User: Hello")
    /\ \A k \in 1..3 :
          api_calls[k].params.system =
              SYSTEM_PROMPT \o "\n\nPrevious conversation:\nUser: Hello"

\* the conversation ends with an assistant turn that requests tools
EndsWithToolRequest ==
    /\ Len(messages) >= 1
    /\ messages[Len(messages)].role = "assistant"
    /\ ToolBlocks(messages[Len(messages)].blocks) # <<>>

\* C31 (as claimed): when a query is aborted while a round is in progress,
\* the conversation holds no half-built round: once generate_response has
\* ended, the conversation never ends with an assistant turn that requests
\* tools and lacks its turn of outcomes.
C31_NoHalfBuiltRound ==
    Finished => ~EndsWithToolRequest

\* C32: while a query runs, generate_response never changes the tools of
\* the tool manager: no step of a query adds a name, removes one or puts
\* another tool object under it, whatever the model requests.
C32_RegistryUnchanged ==
    [][manager_tools' = manager_tools /\ registrations' = registrations]_vars

\* C32 witness: a query with two rounds has ended, an unknown name and a
\* registered one were invoked, and the tools are those registered before
C32_Witness ==
    /\ Finished
    /\ round_num = 2
    /\ \E i \in 1..Len(invocations) : invocations[i].name = "unknown_tool"
    /\ \E i \in 1..Len(invocations) : invocations[i].name = "search_course_content"
    /\ manager_tools = FixtureTools

\* the roles of a conversation alternate, the first turn being a user turn
RolesAlternate(msgs) ==
    \A i \in 1..Len(msgs) :
        msgs[i].role = IF i % 2 = 1 THEN "user" ELSE "assistant"

\* C33 (as claimed): in every reachable state the roles of the conversation
\* alternate strictly, starting with user, and every model-service call is
\* made with a conversation whose last turn is a user turn, also when a
\* response has stop reason tool_use and holds no tool-call block.
C33_RolesAlternate ==
    /\ RolesAlternate(messages)
    /\ \A k \in 1..NumCalls :
          LET sent == api_calls[k].params.messages IN
          /\ RolesAlternate(sent)
          /\ sent[Len(sent)].role = "user"

\* C34: the answer generate_response returns is taken from the most recent
\* model response: after every round in which tools were executed one more
\* model-service call is made before it returns, that call is sent the whole
\* conversation, the last turn of outcomes included, and what is returned is
\* the text of its response, never the outcome of a tool. (Without a tool
\* manager no tool is executed and the answer may be the placeholder.)
C34_AnswerFromLastResponse ==
    pc = "returned" =>
        /\ NumCalls >= 1
        /\ api_calls[NumCalls].outcome = "response"
        /\ api_calls[NumCalls].params.messages = messages
        /\ \A i \in 1..Len(invocations) : invocations[i].after_call < NumCalls
        /\ \A i \in 1..Len(RecordedResults) :
              /\ result.value # RecordedResults[i].content
              /\ \E j \in 1..Len(messages) :
                    /\ messages[j].kind = "tool_results"
                    /\ \E n \in 1..Len(messages[j].blocks) :
                          messages[j].blocks[n] = RecordedResults[i]
        /\ \/ /\ HasLeadingText(api_calls[NumCalls].response)
              /\ ReturnedTextOf(NumCalls)
           \/ /\ ~tool_manager
              /\ invocations = <<>>
              /\ api_calls[NumCalls].response.content = <<>>
              /\ result = Returned(PlaceholderText)

\* C34 witness: a query returned after two tool rounds; the call that
\* answered it was sent a conversation ending with the outcomes of round 2
C34_Witness ==
    /\ pc = "returned"
    /\ NumCalls = 3
    /\ \E i \in 1..Len(invocations) : invocations[i].after_call = 2
    /\ messages[Len(messages)].kind = "tool_results"
    /\ result = Returned(AnswerText(3))

\* the number of tool-call blocks in the responses of the rounds 1..n
ToolBlocksRequested(n) ==
    LET Sum[k \in 0..n] ==
            IF k = 0 THEN 0
            ELSE Sum[k - 1] + Len(ToolBlocks(api_calls[k].response.content))
    IN Sum[n]

\* C35: tools are invoked only on the model's request: between rounds and
\* at the end the number of invocations is the number of tool-call blocks
\* in the tool-requesting responses of the executed rounds; each invocation
\* is made for one block of the response before it, once, with the name
\* and the input of that block; none is made before the first
\* model-service call, and when the query has ended a model-service call
\* follows the last one.
C35_InvokedOnlyOnRequest ==
    /\ pc # "exec" => Len(invocations) = ToolBlocksRequested(round_num)
    /\ pc = "exec" =>
          /\ Len(invocations) >= ToolBlocksRequested(round_num)
          /\ Len(invocations) <= ToolBlocksRequested(round_num + 1)
    /\ \A i \in 1..Len(invocations) :
          LET v == invocations[i] IN
          /\ v.after_call >= 1 /\ v.after_call <= NumCalls
          /\ IsToolRequest(v.after_call)
          /\ \E n \in 1..Len(api_calls[v.after_call].response.content) :
                LET b == api_calls[v.after_call].response.content[n] IN
                /\ b.type = "tool_use"
                /\ b.id = v.id /\ b.name = v.name /\ b.input = v.input
          /\ \A j \in 1..Len(invocations) : invocations[j].id = v.id => j = i
          /\ Finished => v.after_call < NumCalls
    /\ ~tool_manager => invocations = <<>>

\* C35 witness: a query ended after a round of two tool calls and a round
\* whose response requested tools without holding a tool-call block
C35_Witness ==
    /\ Finished
    /\ round_num = 2
    /\ Len(invocations) = 2
    /\ Len(ToolBlocks(api_calls[1].response.content)) = 2
    /\ Len(ToolBlocks(api_calls[2].response.content)) = 0
    /\ IsToolRequest(2)

\* C36: for max_rounds <= 0 generate_response makes exactly one
\* model-service call, without tools and tool_choice even if a list of tools
\* was supplied, invokes no tool, and returns the text of that call's
\* response (content[0].text, where the response has one).
C36_NoRoundsOneCall ==
    (pc # "idle" /\ max_rounds <= 0) =>
        /\ NumCalls <= 1
        /\ round_num = 0
        /\ invocations = <<>>
        /\ pc \in {"final", "returned", "raised"}
        /\ NumCalls = 1 =>
              /\ Finished
              /\ ~api_calls[1].params.has_tools
              /\ api_calls[1].params.tools = <<>>
              /\ api_calls[1].params.tool_choice = ""
              /\ api_calls[1].params.messages = <<UserTurn(query)>>
              /\ ( /\ api_calls[1].outcome = "response"
                   /\ HasLeadingText(api_calls[1].response) ) =>
                       (pc = "returned" /\ ReturnedTextOf(1))
        /\ Finished => NumCalls = 1

\* C36 witness: with max_rounds = 0, tools and a tool manager supplied, the
\* only call answered with stop reason tool_use and a tool-call block after
\* its text, and the text was returned
C36_Witness ==
    /\ pc = "returned"
    /\ max_rounds = 0 /\ Truthy(tools) /\ tool_manager
    /\ NumCalls = 1
    /\ IsToolRequest(1)
    /\ WantsToolsByContent(api_calls[1].response)
    /\ result = Returned(AnswerText(1))

\* the turn of outcomes of the round that follows call k, as the next
\* model-service call was sent it
OutcomesSentAfter(k) ==
    LET sent == api_calls[k + 1].params.messages IN sent[Len(sent)]

\* C37: when a tool invocation returns normally, the content of its outcome
\* in the conversation is exactly the string execute_tool returned,
\* unchanged, under the id of its request, and that is what the next
\* model-service call is sent: results and messages about an unknown name
\* reach the model verbatim.
C37_ReturnedContentVerbatim ==
    \A i \in 1..Len(invocations) :
        LET v == invocations[i] IN
        v.outcome.kind = "return" =>
            /\ Len(RecordedResults) >= i
            /\ RecordedResults[i].tool_use_id = v.id
            /\ RecordedResults[i].content = v.outcome.value
            /\ v.after_call < NumCalls =>
                  /\ OutcomesSentAfter(v.after_call).kind = "tool_results"
                  /\ \E n \in 1..Len(OutcomesSentAfter(v.after_call).blocks) :
                        OutcomesSentAfter(v.after_call).blocks[n] =
                            [type |-> "tool_result", tool_use_id |-> v.id,
                             content |-> v.outcome.value]

\* C37 witness: the second model-service call was sent the outcomes of a
\* round in which a search returned its results and an unknown name was
\* answered with the tool manager's message
C37_Witness ==
    /\ NumCalls >= 2
    /\ OutcomesSentAfter(1).kind = "tool_results"
    /\ Len(OutcomesSentAfter(1).blocks) = 2
    /\ OutcomesSentAfter(1).blocks[1].content = "search results"
    /\ OutcomesSentAfter(1).blocks[2].content = "Tool 'unknown_tool' not found"

\* C38: generate_response leaves the generator's stored base parameters
\* and the supplied tools unchanged: at every point, in every query, the
\* stored dictionary is as __init__ left it (model, temperature 0,
\* max_tokens 800, no tools and no tool_choice), every model-service call
\* carries that model name, temperature and max_tokens, a call of the loop
\* carries the tools as they were supplied, and a query that has not
\* started finds nothing of the one before.
C38_BaseParamsUnchanged ==
    /\ stored_params =
          [model |-> "claude-3-sonnet-20240229", temperature |-> 0,
           max_tokens |-> 800, has_tools |-> FALSE, tools |-> <<>>,
           tool_choice |-> ""]
    /\ \A k \in 1..NumCalls :
          /\ api_calls[k].params.model = "claude-3-sonnet-20240229"
          /\ api_calls[k].params.temperature = 0
          /\ api_calls[k].params.max_tokens = 800
          /\ api_calls[k].params.has_tools =>
                (~tools.none /\ api_calls[k].params.tools = tools.defs)
    /\ pc = "idle" =>
          /\ messages = <<>> /\ api_calls = <<>> /\ invocations = <<>>
          /\ round_num = 0 /\ system_content = ""

\* C38 witness: the second query on the generator, made with tools, has
\* completed three model-service calls
C38_Witness ==
    /\ query_count = 2
    /\ Truthy(tools)
    /\ NumCalls = 3
    /\ api_calls[1].params.has_tools
    /\ ~api_calls[3].params.has_tools

====
